---- MODULE Spec2Model ----
(***************************************************************************)
(* Model of src/main.py: the job-feed poller.  One background worker runs  *)
(* continuous_job_checker: load the seen-set, walk every (source, keyword) *)
(* pair, notify every entry not seen, save the set if a pair reported new  *)
(* jobs, sleep, and start over.                                            *)
(***************************************************************************)
EXTENDS Integers, Sequences, FiniteSets, TLC

\* Longest feed document the environment returns for one pair.
MaxEntries == 2

\* A missing attribute of a feed entry / an absent value.
NoAttr == "<none>"

\* main.py:15-16: the defaults of os.environ.get.
PLACEHOLDER_TOKEN == "YOUR_BOT_TOKEN"
PLACEHOLDER_CHAT == "YOUR_CHAT_ID"
Tokens == {PLACEHOLDER_TOKEN, "123:abc"}
ChatIds == {PLACEHOLDER_CHAT, "42"}

\* main.py:19-28. The 27 keywords are represented by one of them: every
\* further keyword adds one more pair per source, run by the same loop body.
SEARCH_KEYWORDS == <<"FY1">>

\* main.py:183-195: the NHS Jobs loop runs first, then the HealthJobsUK loop.
Sources == <<"NHS Jobs", "HealthJobsUK">>

Pairs ==
    [i \in 1..(Len(Sources) * Len(SEARCH_KEYWORDS)) |->
        [source  |-> Sources[((i - 1) \div Len(SEARCH_KEYWORDS)) + 1],
         keyword |-> SEARCH_KEYWORDS[((i - 1) % Len(SEARCH_KEYWORDS)) + 1]]]

NumPairs == Len(Pairs)

\* Feed entries as feedparser hands them over: an entry may lack its id, or
\* its link.  Job ids are the strings "A" and "B".  A title is the sequence
\* of its words.
EntryPool ==
    { [id |-> "A",    link |-> "https://x/1", title |-> <<"FY1", "Doctor">>],
      [id |-> NoAttr, link |-> "B",           title |-> <<"Staff", "Nurse">>],
      [id |-> "A",    link |-> NoAttr,        title |-> <<"fy1", "Doctor">>] }

Ids == {"A", "B"}

SeqsUpTo(S, n) == UNION { [1..k -> S] : k \in 0..n }

\* Every feed document of at most MaxEntries entries.
FeedDocs == SeqsUpTo(EntryPool, MaxEntries)

RECURSIVE Reverse(_)
Reverse(s) == IF s = <<>> THEN <<>> ELSE Append(Reverse(Tail(s)), Head(s))

Range(s) == { s[i] : i \in 1..Len(s) }

\* Sequences that list every element of S exactly once.
Orderings(S) == { s \in [1..Cardinality(S) -> S] : Range(s) = S }

(***************************************************************************)
(* Text.  A text is a sequence of tokens: words, ":", " ", the line break   *)
(* NL and markup tags.                                                     *)
(***************************************************************************)
NL == "NL"
Tags == {"<b>", "</b>"}
Whitespace == {" ", NL}

\* Case folding (str.lower, re.IGNORECASE) of the words that occur.
Lower(w) ==
    CASE w = "FY1"       -> "fy1"
      [] w = "Doctor"    -> "doctor"
      [] w = "Staff"     -> "staff"
      [] w = "Nurse"     -> "nurse"
      [] w = "Employer"  -> "employer"
      [] w = "Location"  -> "location"
      [] w = "Specialty" -> "specialty"
      [] w = "Salary"    -> "salary"
      [] w = "Acme"      -> "acme"
      [] OTHER           -> w

\* str.strip(): leading and trailing whitespace removed.
RECURSIVE LStrip(_)
LStrip(t) == IF t # <<>> /\ Head(t) \in Whitespace THEN LStrip(Tail(t)) ELSE t

Strip(t) == Reverse(LStrip(Reverse(LStrip(t))))

\* main.py:105: re.sub('<.*?>', '', snippet)
RemoveTags(t) == SelectSeq(t, LAMBDA x : x \notin Tags)

\* Index of the first line break at or after position i, or Len(t) + 1.
RECURSIVE LineEnd(_, _)
LineEnd(t, i) == IF i > Len(t) \/ t[i] = NL THEN i ELSE LineEnd(t, i + 1)

\* Number of tokens of t from position i on that [:\s]* can take.
RECURSIVE SkipLen(_, _)
SkipLen(t, i) ==
    IF i <= Len(t) /\ t[i] \in Whitespace \cup {":"} THEN 1 + SkipLen(t, i + 1) ELSE 0

(***************************************************************************)
(* re.search(r'Label[:\s]*(.+?)(?:\n|$)', snippet, re.IGNORECASE)          *)
(* (main.py:107-110).  At a label at position p the greedy [:\s]* takes k  *)
(* tokens, as many as it can and then fewer, until (.+?) finds a token that *)
(* is not a line break at p + 1 + k; the group runs to the end of that     *)
(* line.  The search takes the first label where this succeeds.            *)
(***************************************************************************)
MatchAt(t, p) ==
    LET ks == { k \in 0..SkipLen(t, p + 1) : p + 1 + k <= Len(t) /\ t[p + 1 + k] # NL }
    IN  IF ks = {} THEN [found |-> FALSE, group |-> <<>>]
        ELSE LET k == CHOOSE x \in ks : \A y \in ks : y <= x
                 s == p + 1 + k
             IN  [found |-> TRUE, group |-> SubSeq(t, s, LineEnd(t, s) - 1)]

Search(label, t) ==
    LET ps == { p \in 1..Len(t) : Lower(t[p]) = Lower(label) /\ MatchAt(t, p).found }
    IN  IF ps = {} THEN [found |-> FALSE, group |-> <<>>]
        ELSE MatchAt(t, CHOOSE p \in ps : \A q \in ps : p <= q)

\* main.py:104: entry.get('summary', '') or entry.get('description', '') or ''
Snippet(entry) == IF entry.summary # <<>> THEN entry.summary ELSE entry.description

Labels == <<"Employer", "Location", "Specialty", "Salary">>

\* main.py:103-118: extract_job_details. A field is the stripped group of its
\* match; found = FALSE stands for None.
extract_job_details(entry) ==
    LET snippet == RemoveTags(Snippet(entry))
    IN  [l \in Range(Labels) |->
            LET mt == Search(l, snippet)
            IN  [found |-> mt.found, value |-> Strip(mt.group)]]

\* main.py:92-101: parse_date. published.parsed: published_parsed is set;
\* published.raw: the published string is absent ("none"), in the format of
\* strptime ("rfc822") or in another one ("other").
parse_date(entry) ==
    IF entry.published.parsed THEN "01 Jan 2026"
    ELSE IF entry.published.raw = "rfc822" THEN "01 Jan 2026"
    ELSE "N/A"

MsgLine(label, text) == [label |-> label, text |-> text]

\* A line for every label, with or without a value.
DetailLine_unconditional(label, details) ==
    <<MsgLine(label, details[label].value)>>

\* main.py:127-134: if details['employer']: message += ...
DetailLine(label, details) ==
    IF details[label].found /\ details[label].value # <<>>
    THEN <<MsgLine(label, details[label].value)>>
    ELSE <<>>

\* main.py:120-140: format_message, the message as the sequence of its lines.
format_message(entry) ==
    LET details == extract_job_details(entry)
    IN  <<MsgLine("Title", Strip(entry.title))>>
            \o DetailLine("Employer", details)
            \o DetailLine("Location", details)
            \o DetailLine("Specialty", details)
            \o DetailLine("Salary", details)
            \o <<MsgLine("Published", <<parse_date(entry)>>)>>
            \o <<MsgLine("Link", <<entry.link>>)>>

(***************************************************************************)
(* Entries as format_message sees them: title, link, summary, description   *)
(* and the published date.                                                 *)
(***************************************************************************)
MaxSummaryLines == 2

SummaryLines ==
    { <<"Employer", ":", " ", "Acme">>,
      <<"employer", ":", " ", "<b>", "Acme", "</b>">>,
      <<"Employer", ":", " ">>,
      <<"Location", ":">>,
      <<"Specialty", " ", "Acme", " ">>,
      <<"Salary">>,
      <<"Acme">> }

RECURSIVE TextsOf(_)
TextsOf(n) ==
    IF n = 0 THEN {<<>>}
    ELSE LET shorter == TextsOf(n - 1)
         IN  shorter \cup SummaryLines
                 \cup { t \o <<NL>> \o l : t \in shorter \ {<<>>}, l \in SummaryLines }

Summaries == TextsOf(MaxSummaryLines)
Descriptions == {<<>>, <<"Salary", ":", " ", "Acme">>}
Titles == {<<"FY1", " ", "Doctor">>, <<" ", "FY1", " ", "Doctor", NL>>}
PublishedForms ==
    { [parsed |-> TRUE,  raw |-> "rfc822"],
      [parsed |-> FALSE, raw |-> "rfc822"],
      [parsed |-> FALSE, raw |-> "other"],
      [parsed |-> FALSE, raw |-> "none"] }

FormatEntries ==
    [title : Titles, link : {"https://x/1"}, summary : Summaries,
     description : Descriptions, published : PublishedForms]

NoEntry ==
    [title |-> <<>>, link |-> NoAttr, summary |-> <<>>, description |-> <<>>,
     published |-> [parsed |-> FALSE, raw |-> "none"]]

(***************************************************************************)
(* The store file seen_jobs.json.                                          *)
(*   missing : no such file                                                *)
(*   list    : a JSON array of id strings                                  *)
(*   corrupt : bytes that are not JSON (e.g. a write that stopped midway)  *)
(*   nonset  : valid JSON that set() rejects (a number, nested arrays)     *)
(***************************************************************************)
FileMissing == [kind |-> "missing", ids |-> <<>>]
FileCorrupt == [kind |-> "corrupt", ids |-> <<>>]
FileNonSet  == [kind |-> "nonset",  ids |-> <<>>]
FileList(s) == [kind |-> "list",    ids |-> s]

Files ==
    {FileMissing, FileCorrupt, FileNonSet}
        \cup { FileList(s) : s \in UNION { Orderings(S) : S \in SUBSET Ids } }

\* The ids a reader of the file finds persisted in it.
PersistedIds(f) == IF f.kind = "list" THEN Range(f.ids) ELSE {}

(***************************************************************************)
(* load_seen_jobs (main.py:54-63).  readable = FALSE: open() raises an     *)
(* IOError.  Only JSONDecodeError and IOError are caught; the TypeError of *)
(* set(data) leaves the function.                                          *)
(***************************************************************************)
load_seen_jobs(f, readable) ==
    IF f.kind = "missing" THEN [raised |-> FALSE, fail |-> "none", value |-> {}]
    ELSE IF ~readable THEN [raised |-> FALSE, fail |-> "ioerror", value |-> {}]
    ELSE IF f.kind = "corrupt" THEN [raised |-> FALSE, fail |-> "decode", value |-> {}]
    ELSE IF f.kind = "nonset" THEN [raised |-> TRUE, fail |-> "type", value |-> {}]
    ELSE [raised |-> FALSE, fail |-> "none", value |-> Range(f.ids)]

(***************************************************************************)
(* save_seen_jobs (main.py:65-70): the file after the call.                *)
(*   ok           : the array list(seen_jobs), in the order `order`        *)
(*   open_failed  : open(DB_FILE, 'w') raised, the file is as it was       *)
(*   write_failed : open truncated the file and the write raised           *)
(* The IOError is caught and logged in both failure cases.                 *)
(***************************************************************************)
SaveOutcomes == {"ok", "open_failed", "write_failed"}

\* A dump that loses the last element of the list.
save_seen_jobs_short(f, order, outcome) ==
    CASE outcome = "ok"           -> FileList(SubSeq(order, 1, Len(order) - 1))
      [] outcome = "open_failed"  -> f
      [] outcome = "write_failed" -> FileCorrupt

save_seen_jobs(f, order, outcome) ==
    CASE outcome = "ok"           -> FileList(order)
      [] outcome = "open_failed"  -> f
      [] outcome = "write_failed" -> FileCorrupt

(***************************************************************************)
(* send_telegram_message (main.py:72-90).  http is what requests.post and  *)
(* raise_for_status do: "ok", a transport failure, or a non-2xx status.    *)
(***************************************************************************)
HttpOutcomes == {"ok", "transport", "status"}

NoSend == [posted |-> FALSE, http |-> "none", ret |-> FALSE, raised |-> FALSE,
           called |-> FALSE]

\* A send that forgets raise_for_status: a non-2xx answer counts as sent.
send_telegram_message_no_status_check(token, chat, http) ==
    IF token = PLACEHOLDER_TOKEN \/ chat = PLACEHOLDER_CHAT
    THEN [posted |-> FALSE, http |-> "none", ret |-> FALSE, raised |-> FALSE,
          called |-> TRUE]
    ELSE [posted |-> TRUE, http |-> http, ret |-> (http # "transport"),
          raised |-> FALSE, called |-> TRUE]

send_telegram_message(token, chat, http) ==
    IF token = PLACEHOLDER_TOKEN \/ chat = PLACEHOLDER_CHAT
    THEN [posted |-> FALSE, http |-> "none", ret |-> FALSE, raised |-> FALSE,
          called |-> TRUE]
    ELSE [posted |-> TRUE, http |-> http, ret |-> (http = "ok"), raised |-> FALSE,
          called |-> TRUE]

\* main.py:160: entry.get('id', entry.link). The default entry.link is
\* evaluated before get is called: an entry without link raises.
HasLink(entry) == entry.link # NoAttr

JobId(entry) == IF entry.id # NoAttr THEN entry.id ELSE entry.link

\* A loop over feed.entries without reversed(): newest first.
ProcessingOrder_feed_order(entries) == entries

\* main.py:159: for entry in reversed(feed.entries)
ProcessingOrder(entries) == Reverse(entries)

\* Marking without looking at the result of the send.
MarkSeen_unconditional(seen, job_id, sent_ok) == seen \cup {job_id}

\* A delivery that is never recorded.
MarkSeen_never(seen, job_id, sent_ok) == seen

\* main.py:163-164: the id is added when the send returned True.
MarkSeen(seen, job_id, sent_ok) == IF sent_ok THEN seen \cup {job_id} ELSE seen

\* Comparisons that are off by one, either way.
FoundNew_nonnegative(count) == count >= 0

FoundNew_more_than_one(count) == count > 1

\* main.py:175: return new_jobs_found_count > 0
FoundNew(count) == count > 0

\* An except clause that forgets what the pair had sent.
CountAfterError_reset(count) == 0

\* main.py:168-175: the except clauses only log; new_jobs_found_count is what
\* the loop had reached when the error was raised.
CountAfterError(count) == count

\* A loop that never waits between two messages.
PauseAfter_never(sent_ok) == FALSE

\* main.py:163-166: time.sleep(2) is the last statement of the branch taken
\* when send_telegram_message returned True.
PauseAfter(sent_ok) == sent_ok

\* main.py:148-149: requests.get and raise_for_status.
FetchOutcomes == {"ok", "timeout", "network"}

\* A scheduler loop without its try/except: the thread dies.
CycleBoundary_uncaught == "dead"

\* main.py:205-208: where control goes when check_for_new_jobs raises.
CycleBoundary == "sleep"

\* A pair whose error is not caught in fetch_and_process_feed ends the cycle.
PairBoundary_uncaught == CycleBoundary

\* main.py:168-175: the except clauses of fetch_and_process_feed log and fall
\* through to the return statement of the pair.
PairBoundary == "entries"

VARIABLES
    pc,             \* position of the worker thread
    file,           \* seen_jobs.json
    feeds,          \* feeds[i]: the document pair i's URL serves
    BOT_TOKEN, CHAT_ID,
    seen_jobs,      \* check_for_new_jobs: seen_jobs
    any_new_jobs,   \* check_for_new_jobs: any_new_jobs
    pair,           \* index of the pair being processed
    queue,          \* entries of the current feed still to process
    new_jobs_found_count,
    lastSend,       \* the send_telegram_message call of the last step, if any
    \* ---- record of the current cycle (kept until the next one loads) ----
    events,         \* load / fetch / save_if_changed steps, in order
    loaded,         \* what load_seen_jobs returned
    loadFail,       \* how load_seen_jobs failed: none, ioerror, decode, type
    caught,         \* "load" when the cycle's exception reached line 207
    delivered,      \* ids delivered (send returned True), in order
    failed,         \* ids whose send returned False
    aborted,        \* pairs that ended in one of the except clauses
    saves,          \* calls of save_seen_jobs
    written,        \* the set passed to save_seen_jobs
    saveOutcome,    \* outcome of that call
    fileAtStart,    \* the file when the cycle started
    ranBefore,      \* the cycle before the current one ran through its pairs
    prevSettled,    \* the previous cycle had no failure and its store is current
    \* ---- format_message on its own ----
    fmtEntry,       \* the entry handed to format_message
    fmtMsg          \* the message it returned, as its lines

vars == <<pc, file, feeds, BOT_TOKEN, CHAT_ID, seen_jobs, any_new_jobs, pair, queue,
          new_jobs_found_count, lastSend, events, loaded, loadFail, caught, delivered,
          failed, aborted, saves, written, saveOutcome, fileAtStart, ranBefore,
          prevSettled, fmtEntry, fmtMsg>>

fmt == <<fmtEntry, fmtMsg>>
env == <<feeds, BOT_TOKEN, CHAT_ID>>
locals == <<seen_jobs, any_new_jobs, pair, queue, new_jobs_found_count>>
cycleLog == <<events, loaded, loadFail, caught, delivered, failed, aborted, saves,
              written, saveOutcome, fileAtStart, ranBefore, prevSettled>>

Ev(op, i) == [op |-> op, pair |-> i]

Init ==
    /\ pc = "idle"
    /\ file \in Files
    /\ feeds \in [1..NumPairs -> FeedDocs]
    /\ BOT_TOKEN \in Tokens
    /\ CHAT_ID \in ChatIds
    /\ seen_jobs = {}
    /\ any_new_jobs = FALSE
    /\ pair = 0
    /\ queue = <<>>
    /\ new_jobs_found_count = 0
    /\ lastSend = NoSend
    /\ events = <<>>
    /\ loaded = {}
    /\ loadFail = "none"
    /\ caught = "none"
    /\ delivered = <<>>
    /\ failed = {}
    /\ aborted = {}
    /\ saves = 0
    /\ written = {}
    /\ saveOutcome = "none"
    /\ fileAtStart = file
    /\ ranBefore = FALSE
    /\ prevSettled = FALSE
    /\ fmtEntry = NoEntry
    /\ fmtMsg = <<>>

\* main.py:213-216: the checker thread is started.
Start ==
    /\ pc = "idle"
    /\ pc' = "load"
    /\ UNCHANGED <<file, env, fmt, locals, lastSend, cycleLog>>

\* The cycle that just ended left nothing to retry: it ran all its pairs with
\* no failed fetch, entry or delivery, and the file holds its seen-set.
Settled ==
    /\ events # <<>>
    /\ caught = "none"
    /\ aborted = {}
    /\ failed = {}
    /\ PersistedIds(file) = seen_jobs

\* main.py:206, 178-181: check_for_new_jobs starts; load_seen_jobs.
LoadSeenJobs ==
    /\ pc = "load"
    /\ \E readable \in BOOLEAN :
        LET r == load_seen_jobs(file, readable) IN
        /\ loadFail' = r.fail
        /\ IF r.raised
           THEN /\ pc' = CycleBoundary
                /\ caught' = "load"
                /\ loaded' = {}
                /\ UNCHANGED <<seen_jobs, any_new_jobs, pair>>
           ELSE /\ pc' = "fetch"
                /\ caught' = "none"
                /\ loaded' = r.value
                /\ seen_jobs' = r.value
                /\ any_new_jobs' = FALSE
                /\ pair' = 1
    /\ events' = <<Ev("load", 0)>>
    /\ delivered' = <<>>
    /\ failed' = {}
    /\ aborted' = {}
    /\ saves' = 0
    /\ written' = {}
    /\ saveOutcome' = "none"
    /\ fileAtStart' = file
    /\ ranBefore' = (events # <<>> /\ caught = "none")
    /\ prevSettled' = Settled
    /\ queue' = <<>>
    /\ new_jobs_found_count' = 0
    /\ lastSend' = NoSend
    /\ UNCHANGED <<file, env, fmt>>

\* main.py:143-157: fetch_and_process_feed up to the entry loop.
FetchFeed ==
    /\ pc = "fetch"
    /\ \E outcome \in FetchOutcomes :
        IF outcome = "ok"
        THEN /\ queue' = ProcessingOrder(feeds[pair])
             /\ aborted' = aborted
             /\ pc' = "entries"
        ELSE /\ queue' = <<>>
             /\ aborted' = aborted \cup {pair}
             /\ pc' = PairBoundary
    /\ new_jobs_found_count' = 0
    /\ events' = Append(events, Ev("fetch", pair))
    /\ lastSend' = NoSend
    /\ UNCHANGED <<file, env, fmt, seen_jobs, any_new_jobs, pair, loaded, loadFail, caught,
                   delivered, failed, saves, written, saveOutcome, fileAtStart,
                   ranBefore, prevSettled>>

\* main.py:159-166 and 172-173: one iteration of the entry loop.
ProcessEntry ==
    /\ pc = "entries"
    /\ queue # <<>>
    /\ LET entry == Head(queue) IN
       IF ~HasLink(entry)
       THEN \* AttributeError, caught by `except Exception`: the pair ends
            /\ queue' = <<>>
            /\ aborted' = aborted \cup {pair}
            /\ pc' = PairBoundary
            /\ lastSend' = NoSend
            /\ new_jobs_found_count' = CountAfterError(new_jobs_found_count)
            /\ UNCHANGED <<seen_jobs, delivered, failed>>
       ELSE IF JobId(entry) \in seen_jobs
       THEN /\ queue' = Tail(queue)
            /\ pc' = pc
            /\ lastSend' = NoSend
            /\ UNCHANGED <<seen_jobs, new_jobs_found_count, delivered, failed, aborted>>
       ELSE \E http \in HttpOutcomes :
            LET r == send_telegram_message(BOT_TOKEN, CHAT_ID, http) IN
            /\ lastSend' = r
            /\ IF r.raised
               THEN /\ queue' = <<>>
                    /\ aborted' = aborted \cup {pair}
                    /\ pc' = PairBoundary
                    /\ new_jobs_found_count' = CountAfterError(new_jobs_found_count)
                    /\ UNCHANGED <<seen_jobs, delivered, failed>>
               ELSE /\ queue' = Tail(queue)
                    /\ aborted' = aborted
                    /\ pc' = IF PauseAfter(r.ret) THEN "pause" ELSE pc
                    /\ seen_jobs' = MarkSeen(seen_jobs, JobId(entry), r.ret)
                    /\ new_jobs_found_count' =
                          IF r.ret THEN new_jobs_found_count + 1
                          ELSE new_jobs_found_count
                    /\ delivered' =
                          IF r.ret THEN Append(delivered, JobId(entry)) ELSE delivered
                    /\ failed' = IF r.ret THEN failed ELSE failed \cup {JobId(entry)}
    /\ UNCHANGED <<file, env, fmt, any_new_jobs, pair, events, loaded, loadFail, caught,
                   saves, written, saveOutcome, fileAtStart, ranBefore, prevSettled>>

\* main.py:166: time.sleep(2) ends and the loop goes to the next entry.
Pause ==
    /\ pc = "pause"
    /\ pc' = "entries"
    /\ lastSend' = NoSend
    /\ UNCHANGED <<file, env, fmt, locals, cycleLog>>

\* main.py:175 and 187-188 / 194-195: the pair returns to the keyword loop.
ReturnFromPair ==
    /\ pc = "entries"
    /\ queue = <<>>
    /\ any_new_jobs' = (any_new_jobs \/ FoundNew(new_jobs_found_count))
    /\ IF pair < NumPairs
       THEN pair' = pair + 1 /\ pc' = "fetch"
       ELSE pair' = pair /\ pc' = "save"
    /\ new_jobs_found_count' = 0
    /\ lastSend' = NoSend
    /\ UNCHANGED <<file, env, fmt, seen_jobs, queue, cycleLog>>

\* main.py:197-199: any_new_jobs is set, save_seen_jobs is called.
SaveSeenJobs ==
    /\ pc = "save"
    /\ any_new_jobs
    /\ \E outcome \in SaveOutcomes, order \in Orderings(seen_jobs) :
        /\ file' = save_seen_jobs(file, order, outcome)
        /\ saveOutcome' = outcome
    /\ saves' = saves + 1
    /\ written' = seen_jobs
    /\ events' = Append(events, Ev("save_if_changed", 0))
    /\ pc' = "sleep"
    /\ lastSend' = NoSend
    /\ UNCHANGED <<env, fmt, locals, loaded, loadFail, caught, delivered, failed, aborted,
                   fileAtStart, ranBefore, prevSettled>>

\* main.py:200-201: nothing new, the store is not touched.
NoNewJobs ==
    /\ pc = "save"
    /\ ~any_new_jobs
    /\ events' = Append(events, Ev("save_if_changed", 0))
    /\ pc' = "sleep"
    /\ lastSend' = NoSend
    /\ UNCHANGED <<file, env, fmt, locals, loaded, loadFail, caught, delivered, failed,
                   aborted, saves, written, saveOutcome, fileAtStart, ranBefore,
                   prevSettled>>

\* main.py:209-211: the sleep ends and the while loop starts the next cycle.
Sleep ==
    /\ pc = "sleep"
    /\ pc' = "load"
    /\ lastSend' = NoSend
    /\ UNCHANGED <<file, env, fmt, locals, cycleLog>>

Next ==
    \/ Start
    \/ LoadSeenJobs
    \/ FetchFeed
    \/ ProcessEntry
    \/ Pause
    \/ ReturnFromPair
    \/ SaveSeenJobs
    \/ NoNewJobs
    \/ Sleep

(***************************************************************************)
(* format_message taken alone: an entry is drawn and formatted.            *)
(***************************************************************************)
FormatInit ==
    /\ pc = "format"
    /\ fmtEntry \in FormatEntries
    /\ fmtMsg = <<>>
    /\ file = FileMissing
    /\ feeds = [i \in 1..NumPairs |-> <<>>]
    /\ BOT_TOKEN = PLACEHOLDER_TOKEN
    /\ CHAT_ID = PLACEHOLDER_CHAT
    /\ seen_jobs = {}
    /\ any_new_jobs = FALSE
    /\ pair = 0
    /\ queue = <<>>
    /\ new_jobs_found_count = 0
    /\ lastSend = NoSend
    /\ events = <<>>
    /\ loaded = {}
    /\ loadFail = "none"
    /\ caught = "none"
    /\ delivered = <<>>
    /\ failed = {}
    /\ aborted = {}
    /\ saves = 0
    /\ written = {}
    /\ saveOutcome = "none"
    /\ fileAtStart = file
    /\ ranBefore = FALSE
    /\ prevSettled = FALSE

\* main.py:162: message = format_message(entry)
Format ==
    /\ pc = "format"
    /\ fmtMsg' = format_message(fmtEntry)
    /\ pc' = "formatted"
    /\ UNCHANGED <<file, env, locals, lastSend, cycleLog, fmtEntry>>

FormatNext == Format

FormatSpec == FormatInit /\ [][FormatNext]_vars

Spec == Init /\ [][Next]_vars

\* Every step of the worker ends: the network calls carry timeouts (15 s, 10 s)
\* and the sleeps are finite.
FairSpec == Spec /\ WF_vars(Next)

(***************************************************************************)
(* Properties                                                              *)
(***************************************************************************)
Sent == Range(delivered)

\* The cycle ran to its end (it was not cut short by an exception of load).
CycleDone == pc = "sleep" /\ events # <<>> /\ caught = "none"

\* The pairs fetched in the cycle so far, in order.
FetchedPairs ==
    LET fs == SelectSeq(events, LAMBDA e : e.op = "fetch")
    IN  [k \in 1..Len(fs) |-> fs[k].pair]

UpTo(n) == [k \in 1..n |-> k]

\* C1 (as stated): at the end of a cycle every id whose notification
\* succeeded is in the seen-set and every id whose notification failed is not.
C1_AsStated ==
    CycleDone =>
        \A id \in Ids :
            /\ id \in Sent => id \in seen_jobs
            /\ id \in failed => id \notin seen_jobs

\* C1 (amended): at the end of a cycle the seen-set is the loaded set plus the
\* ids notified with success; an id whose notification failed is in it only
\* if another notification of the same id succeeded in the cycle.
C1_SeenIffDelivered ==
    CycleDone =>
        /\ seen_jobs = loaded \cup Sent
        /\ \A id \in failed \ Sent : id \notin seen_jobs

\* C1: an id failed in one attempt and was delivered by a later one, while
\* another id failed in every attempt.
C1_Witness ==
    /\ CycleDone
    /\ failed \cap Sent # {}
    /\ failed \ Sent # {}

\* C2: an id enters the seen-set only in the step whose send succeeded for it,
\* and no step removes an id from the persisted store.
C2_StoreOnlyGrows ==
    [][ /\ (pc = "entries" /\ seen_jobs' # seen_jobs) =>
              /\ lastSend'.ret
              /\ delivered' # <<>>
              /\ seen_jobs' = seen_jobs \cup {delivered'[Len(delivered')]}
        /\ PersistedIds(file) \subseteq PersistedIds(file') ]_vars

\* C3 (as stated): whatever its deliveries, fetches, load and save did, a run
\* that went through its pairs is followed by a run against the same feeds
\* that delivers nothing.
C3_AsStated == (pc = "sleep" /\ ranBefore) => delivered = <<>>

\* C3 (amended): a second run against the same feeds delivers nothing when the
\* first run had no failed fetch, entry or delivery and left its seen-set in
\* the store, and the second run's load read the store.
C3_IdempotentWhenSettled ==
    (pc = "sleep" /\ ranBefore /\ prevSettled /\ loadFail = "none") =>
        delivered = <<>>

\* C3: a second run that found an id of the feeds already in the store.
C3_Witness ==
    /\ CycleDone /\ ranBefore /\ prevSettled /\ loadFail = "none"
    /\ delivered = <<>>
    /\ \E i \in 1..NumPairs : \E k \in 1..Len(feeds[i]) :
          HasLink(feeds[i][k]) /\ JobId(feeds[i][k]) \in loaded

\* C4: a cycle without a successful notification does not call save_seen_jobs,
\* leaves the file as it was and the seen-set as it was loaded.
C4_NoSuccessNoSave ==
    (pc = "sleep" /\ events # <<>> /\ delivered = <<>>) =>
        /\ saves = 0
        /\ file = fileAtStart
        /\ caught = "none" => seen_jobs = loaded

\* C4: a cycle with an entry already seen, a failed delivery and a failed pair.
C4_Witness ==
    /\ CycleDone
    /\ delivered = <<>>
    /\ loaded # {}
    /\ failed # {}
    /\ aborted # {}

\* C5 (order of the steps, common to both statements): the load is the first
\* step of the cycle and the only load; save_seen_jobs
\* is called at most once, after every pair was fetched.
C5_Order ==
    /\ events # <<>> =>
          /\ events[1].op = "load"
          /\ \A k \in 2..Len(events) : events[k].op # "load"
    /\ saves <= 1
    /\ saves = 1 => (pc \in {"sleep", "load"} /\ FetchedPairs = UpTo(NumPairs))

\* C5 (as stated): load once before the first fetch, at most one write after
\* the last pair; after a successful notification the store holds the loaded
\* ids and every id notified in the cycle.
C5_AsStated ==
    /\ C5_Order
    /\ (CycleDone /\ delivered # <<>>) =>
          /\ saves = 1
          /\ file.kind = "list"
          /\ Range(file.ids) = loaded \cup Sent

\* C5 (amended): load once before the first fetch, at most one call of
\* save_seen_jobs after the last pair; after a successful notification it is
\* called exactly once, with the loaded ids and every id notified in the
\* cycle, and the store holds that set when the write did not fail.
C5_SaveOnceFullSet ==
    /\ C5_Order
    /\ (CycleDone /\ delivered # <<>>) =>
          /\ saves = 1
          /\ written = loaded \cup Sent
          /\ saveOutcome = "ok" => (file.kind = "list" /\ Range(file.ids) = written)
          /\ saveOutcome = "open_failed" => file = fileAtStart

\* C5: a cycle that loaded ids, delivered another one and saved.
C5_Witness ==
    /\ CycleDone
    /\ delivered # <<>>
    /\ loaded # {}
    /\ saveOutcome = "ok"

\* C6: every pair of the cycle is fetched, in order, whatever happened in the
\* pairs before it, and the cycle reaches its save-if-changed step.
C6_PairsIsolated ==
    /\ pc = "fetch" => FetchedPairs = UpTo(pair - 1)
    /\ pc \in {"entries", "pause"} => FetchedPairs = UpTo(pair)
    /\ pc = "save" => FetchedPairs = UpTo(NumPairs)
    /\ (pc = "sleep" /\ events # <<>> /\ caught = "none") =>
          /\ FetchedPairs = UpTo(NumPairs)
          /\ events[Len(events)].op = "save_if_changed"

\* C6: the first pair failed and a later pair delivered.
C6_Witness ==
    /\ CycleDone
    /\ 1 \in aborted
    /\ delivered # <<>>

\* C7: the scheduler never stops: it sleeps again and again and starts a new
\* cycle again and again, also after a cycle that raised.
C7_SchedulerNeverStops ==
    /\ []<>(pc = "sleep")
    /\ []<>(pc = "load")
    /\ [](caught = "load" => pc \in {"sleep", "load"})

\* C7: a new cycle is about to start after a cycle whose error was caught.
C7_Witness == pc = "load" /\ caught = "load"

Configured == BOT_TOKEN # PLACEHOLDER_TOKEN /\ CHAT_ID # PLACEHOLDER_CHAT

\* C8: a call of send_telegram_message returns a boolean and does not raise;
\* unconfigured it returns False without an HTTP call; it returns True exactly
\* when the HTTP call was made and ended with a success status.
C8_SendIsBoolean ==
    lastSend.called =>
        /\ ~lastSend.raised
        /\ lastSend.ret \in BOOLEAN
        /\ lastSend.posted = Configured
        /\ ~Configured => ~lastSend.ret
        /\ lastSend.ret = (lastSend.posted /\ lastSend.http = "ok")

\* C8: a configured send that got a non-2xx status and returned False.
C8_Witness ==
    /\ lastSend.called
    /\ lastSend.http = "status"
    /\ ~lastSend.ret

\* C9: a failed load yields the empty set and the cycle goes on to its pairs.
C9_LoadNeverAborts ==
    (pc # "idle" /\ loadFail # "none") =>
        /\ caught = "none"
        /\ loaded = {}
        /\ pc # "sleep" \/ FetchedPairs = UpTo(NumPairs)

\* C10: after a save that failed, the scheduler goes on and the ids notified
\* in that cycle are in the seen-set of the next cycle.
C10_ProgressKept ==
    [][ (saveOutcome \in {"open_failed", "write_failed"}) =>
            /\ pc \in {"sleep", "load"}
            /\ pc' \in {"load", "fetch", "sleep"}
            /\ pc' = "fetch" => Sent \subseteq seen_jobs' ]_vars

\* The ids delivered so far by the pair being processed, in order of delivery.
SentInPair ==
    SubSeq(delivered, Len(delivered) - new_jobs_found_count + 1, Len(delivered))

\* C11: of two entries of one feed that are both notified, the one later in
\* the feed document is delivered first.
C11_OldestFirst ==
    pc \in {"entries", "pause"} =>
        \A a, b \in 1..Len(SentInPair) :
            a < b =>
                \E i, j \in 1..Len(feeds[pair]) :
                    /\ i > j
                    /\ HasLink(feeds[pair][i]) /\ JobId(feeds[pair][i]) = SentInPair[a]
                    /\ HasLink(feeds[pair][j]) /\ JobId(feeds[pair][j]) = SentInPair[b]

\* C11: a pair has delivered two entries of its feed.
C11_Witness == pc = "entries" /\ Len(SentInPair) = 2

\* The load that follows a save which succeeded.
LoadAfterSave == pc = "load" /\ pc' # "load" /\ saveOutcome = "ok"

\* C12 (as stated): after a save of S that succeeded, the following load
\* returns S.
C12_AsStated ==
    [][ LoadAfterSave => (pc' = "fetch" /\ seen_jobs' = written) ]_vars

\* C12 (amended): after a save of S that succeeded, the following load returns
\* S, whatever the order of the ids in the file, unless opening the file for
\* reading fails: then it returns the empty set.
C12_RoundTrip ==
    [][ LoadAfterSave =>
            /\ pc' = "fetch"
            /\ written # {}
            /\ Range(file.ids) = written
            /\ seen_jobs' = (IF loadFail' = "none" THEN written ELSE {})
            /\ loadFail' \in {"none", "ioerror"} ]_vars

\* C12: a set of two ids was saved, in an order that is not the alphabetic one,
\* and the next load is about to read it.
C12_Witness ==
    /\ pc = "load"
    /\ saveOutcome = "ok"
    /\ written = {"A", "B"}
    /\ file.ids = <<"B", "A">>

\* Some configured keyword occurs in the title, whatever the case.
Relevant(title) ==
    \E k \in 1..Len(SEARCH_KEYWORDS), i \in 1..Len(title) :
        Lower(title[i]) = Lower(SEARCH_KEYWORDS[k])

\* C13: a step that delivers an entry delivers one that is novel and whose
\* title contains a configured keyword.
C13_OnlyNovelAndRelevant ==
    [][ delivered' # delivered =>
            /\ queue # <<>>
            /\ JobId(Head(queue)) \notin seen_jobs
            /\ Relevant(Head(queue).title) ]_vars

(***************************************************************************)
(* C14: the lines of a formatted message.                                  *)
(***************************************************************************)
LinesOf(label) == { i \in 1..Len(fmtMsg) : fmtMsg[i].label = label }
FmtText == RemoveTags(Snippet(fmtEntry))
LabelAt(label) == { p \in 1..Len(FmtText) : Lower(FmtText[p]) = Lower(label) }
\* The words that follow the label at p on its line, colons and blanks dropped.
ValueAt(p) ==
    Strip(SelectSeq(SubSeq(FmtText, p + 1, LineEnd(FmtText, p + 1) - 1),
                    LAMBDA x : x # ":"))
\* The field is present: its label occurs with a value after it on its line.
FieldPresent(label) == \E p \in LabelAt(label) : ValueAt(p) # <<>>
DatePresent == fmtEntry.published.parsed \/ fmtEntry.published.raw # "none"
TitleAndLink ==
    /\ Len(fmtMsg) >= 2
    /\ fmtMsg[1] = MsgLine("Title", Strip(fmtEntry.title))
    /\ fmtMsg[Len(fmtMsg)] = MsgLine("Link", <<fmtEntry.link>>)
    /\ LinesOf("Title") = {1} /\ LinesOf("Link") = {Len(fmtMsg)}

\* C14 as stated: the message holds the title and the link, and the line of
\* each of employer, location, specialty, salary and published date if and
\* only if that field is present in the entry.
C14_AsStated ==
    pc = "formatted" =>
        /\ TitleAndLink
        /\ \A l \in Range(Labels) : (LinesOf(l) # {}) <=> FieldPresent(l)
        /\ (LinesOf("Published") # {}) <=> DatePresent

\* C14 (amended): the message always holds the stripped title, one published
\* line and the link; the published line holds the date when the date is
\* present and parsable and "N/A" otherwise. A detail line is emitted at most
\* once and only if its label occurs in the text, and it is emitted with the
\* value when the first occurrence of the label has a value after it on its
\* line.
C14_FormatLines ==
    pc = "formatted" =>
        /\ TitleAndLink
        /\ \E i \in 1..Len(fmtMsg) :
              /\ LinesOf("Published") = {i}
              /\ fmtMsg[i].text =
                    IF fmtEntry.published.parsed \/ fmtEntry.published.raw = "rfc822"
                    THEN <<"01 Jan 2026">> ELSE <<"N/A">>
        /\ \A l \in Range(Labels) :
              /\ Cardinality(LinesOf(l)) <= 1
              /\ LinesOf(l) # {} => LabelAt(l) # {}
              /\ \A p \in LabelAt(l) :
                    (/\ \A q \in LabelAt(l) : p <= q
                     /\ ValueAt(p) # <<>>
                     /\ p + 1 <= Len(FmtText) /\ FmtText[p + 1] \in {":", " "})
                    => \E i \in LinesOf(l) : fmtMsg[i].text = ValueAt(p)

\* An entry without a date, with an employer and without a salary has been
\* formatted: an employer line, a published line "N/A", no salary line.
C14_Witness ==
    /\ pc = "formatted"
    /\ ~DatePresent
    /\ FieldPresent("Employer") /\ LinesOf("Employer") # {}
    /\ LabelAt("Salary") = {} /\ LinesOf("Salary") = {}
    /\ \E i \in LinesOf("Published") : fmtMsg[i].text = <<"N/A">>

(***************************************************************************)
(* C15: one delivery per id and cycle.                                     *)
(***************************************************************************)
NoDuplicates(s) == \A i, j \in 1..Len(s) : i < j => s[i] # s[j]
EntryA == [id |-> "A", link |-> "https://x/1", title |-> <<"FY1", "Doctor">>]
\* A finished cycle that started from an empty store, in which every feed
\* returned the single entry A and no delivery failed.
SingleEntryCycle ==
    /\ pc = "sleep" /\ caught = "none"
    /\ fileAtStart \in {FileMissing, FileList(<<>>)}
    /\ \A i \in 1..NumPairs : feeds[i] = <<EntryA>>
    /\ aborted = {} /\ failed = {}

\* C15 as stated: no id is delivered twice in a cycle; from an empty store
\* with every feed returning A and delivery succeeding, one message is
\* delivered and the store after the cycle is {A}.
C15_AsStated ==
    /\ NoDuplicates(delivered)
    /\ SingleEntryCycle => (delivered = <<"A">> /\ PersistedIds(file) = {"A"})

\* C15 (amended): no id is delivered twice in a cycle; in the single-entry
\* cycle one message is delivered, the seen-set is {A} and is handed to
\* save_seen_jobs once, and the store is {A} when that write succeeds.
C15_DeliveredOnce ==
    /\ NoDuplicates(delivered)
    /\ SingleEntryCycle =>
          /\ delivered = <<"A">>
          /\ seen_jobs = {"A"}
          /\ saves = 1 /\ written = {"A"}
          /\ saveOutcome = "ok" => PersistedIds(file) = {"A"}

C15_Witness ==
    /\ SingleEntryCycle
    /\ delivered = <<"A">>
    /\ saveOutcome = "ok" /\ file = FileList(<<"A">>)

(***************************************************************************)
(* C16: a failed delivery is tried again in the next cycle.                *)
(***************************************************************************)
\* The step from one cycle to the next: the load that follows a cycle.
NextCycleStarts == pc = "load" /\ events # <<>> /\ pc' = "fetch"
ReturnedBy(i, id) ==
    \E k \in 1..Len(feeds[i]) : HasLink(feeds[i][k]) /\ JobId(feeds[i][k]) = id
\* Every id that a pair which ran to its end returned, and that the cycle did
\* not load as seen, had a delivery attempt in the cycle.
UnseenAttempted ==
    CycleDone =>
        \A i \in (1..NumPairs) \ aborted, id \in Ids :
            ReturnedBy(i, id) => id \in loaded \cup failed \cup Sent

\* C16 as stated: an id whose delivery failed in a cycle is not marked seen,
\* the next cycle starts without it in its seen-set, and a cycle attempts
\* every unseen id its feeds return.
C16_AsStated ==
    [][ /\ NextCycleStarts =>
              \A id \in failed : id \notin seen_jobs /\ id \notin seen_jobs'
        /\ UnseenAttempted' ]_vars

\* C16 (amended): an id whose every delivery of the cycle failed is not in the
\* seen-set; the next cycle starts with it unseen unless the store already
\* held it and the load of the failing cycle had not read it; a cycle
\* attempts every id that is not in its loaded set and is returned by a pair
\* that runs to its end.
C16_RetryAfterFailure ==
    [][ /\ NextCycleStarts =>
              \A id \in failed \ Sent :
                  /\ id \notin seen_jobs
                  /\ id \in seen_jobs' =>
                        (id \in PersistedIds(file) /\ loadFail # "none")
        /\ UnseenAttempted' ]_vars

\* A cycle of the unconfigured bot has ended: B was attempted, failed, is not
\* seen nor stored, and its feed still returns it to the cycle about to start.
C16_Witness ==
    /\ pc = "load" /\ events # <<>> /\ caught = "none"
    /\ ~Configured
    /\ "B" \in failed \ Sent /\ "B" \notin seen_jobs /\ "B" \notin PersistedIds(file)
    /\ \E i \in (1..NumPairs) \ aborted : ReturnedBy(i, "B")

(***************************************************************************)
(* C17: a pair that fails after a delivery.                                *)
(***************************************************************************)
\* The pair has delivered and the entry at hand raises.
RaisesAfterDelivery ==
    /\ pc = "entries" /\ queue # <<>>
    /\ new_jobs_found_count >= 1
    /\ pair \in aborted' \ aborted
\* The return statement of a pair that failed after a delivery.
ReturnsAfterError ==
    /\ pc = "entries" /\ queue = <<>>
    /\ pair \in aborted /\ new_jobs_found_count >= 1
\* The pair returns True and any_new_jobs stays set up to the end of the cycle.
ReportedAsNew ==
    /\ RaisesAfterDelivery =>
          (pc' = "entries" /\ queue' = <<>> /\ new_jobs_found_count' >= 1)
    /\ ReturnsAfterError => any_new_jobs'
    /\ (any_new_jobs /\ pc # "load") => any_new_jobs'

\* C17 as stated: a pair that delivered and then failed still reports new
\* jobs, and the ids it added are written to the store at the end of the cycle.
C17_AsStated ==
    [][ /\ ReportedAsNew
        /\ (any_new_jobs /\ pc = "save") =>
              (Sent \subseteq seen_jobs /\ PersistedIds(file') = seen_jobs) ]_vars

\* C17 (amended): a pair that delivered and then failed still reports new
\* jobs, and at the end of the cycle the seen-set with the ids it added is
\* handed to save_seen_jobs; the store holds them when that write succeeds.
C17_PartialPairSaved ==
    [][ /\ ReportedAsNew
        /\ (any_new_jobs /\ pc = "save") =>
              /\ Sent \subseteq seen_jobs
              /\ saves' = 1 /\ written' = seen_jobs
              /\ saveOutcome' = "ok" => PersistedIds(file') = seen_jobs ]_vars

\* Pair 1 got nothing; pair 2 delivered B, then its next entry raised; the
\* cycle saved, and the store holds B.
C17_Witness ==
    /\ CycleDone
    /\ feeds[1] = <<>> /\ aborted = {2} /\ delivered = <<"B">>
    /\ saveOutcome = "ok" /\ "B" \in PersistedIds(file)

(***************************************************************************)
(* C18: the pause between two messages.                                    *)
(***************************************************************************)
\* C18: a delivery attempt is made only from the entry loop; a successful one
\* adds its id and is followed by the pause, during which no attempt is made
\* and after which the loop goes on; a failed one adds no id and is followed
\* by no pause. The pause is taken only after a successful delivery.
C18_PauseAfterSuccess ==
    [][ /\ lastSend'.called =>
              /\ pc = "entries" /\ queue # <<>>
              /\ IF lastSend'.ret
                 THEN /\ pc' = "pause"
                      /\ seen_jobs' = seen_jobs \cup {JobId(Head(queue))}
                      /\ JobId(Head(queue)) \notin seen_jobs
                 ELSE /\ pc' # "pause"
                      /\ seen_jobs' = seen_jobs
        /\ pc' = "pause" => (lastSend'.called /\ lastSend'.ret)
        /\ pc = "pause" =>
              /\ pc' = "entries"
              /\ ~lastSend'.called
              /\ UNCHANGED <<seen_jobs, queue, delivered, failed>> ]_vars

\* The pause that follows the second delivery of a pair.
C18_Witness ==
    /\ pc = "pause" /\ lastSend.ret
    /\ new_jobs_found_count = 2

TypeOK ==
    /\ pc \in {"idle", "load", "fetch", "entries", "pause", "save", "sleep", "format",
              "formatted"}
    /\ pc \in {"fetch", "entries", "pause"} => pair \in 1..NumPairs
    /\ file \in Files
    /\ seen_jobs \subseteq Ids
    /\ pair \in 0..NumPairs
    /\ saves \in 0..1

====
